---- MODULE Spec2Model ----
(***************************************************************************)
(* TaxAUmate (src/app.py): a retrieval-augmented chat assistant.           *)
(*                                                                         *)
(* Text is a sequence of characters, each a string (the backtick is        *)
(* written "BACKTICK").  Scores are integers (only their order is used).   *)
(* The formatted context, which the code builds by concatenating one fixed *)
(* non-empty block per hydrated record, is the sequence of its blocks; it  *)
(* is the empty string exactly when it has no block.                       *)
(***************************************************************************)
EXTENDS Integers, Sequences, FiniteSets, TLC

VARIABLES
    pc,                 \* position of the script run of the session
    mongo_client,       \* cached resources of get_*_client (FALSE: none)
    pinecone_client,
    openai_client,
    messages,           \* st.session_state.messages (<<>>: key not set)
    prompt,             \* the question of the turn being processed
    results_docs,       \* matches returned by the document index
    results_legis,      \* matches returned by the legislation index
    unique_result_ids,  \* merged candidates of the turn
    store_docs,         \* records the document collection held, in its order
    store_legis,        \* records the legislation collection held
    mongo_results,      \* records returned by the two store lookups
    hydrated,           \* the merged candidates a block was built for
    context,            \* formatted_context returned to main
    raw_context,        \* raw_context_for_display returned to main
    retrieval_error,    \* the call of retrieve_context that raised
    search_details,     \* what the "Search Details" expander shows
    api_requests,       \* completion requests issued in this turn
    completion_error,   \* where the completion call of this turn raised
    stream_chunks,      \* chunks received from the stream of this turn
    full_response,      \* fragments accumulated from the stream
    placeholder,        \* what the response placeholder renders
    calls,              \* external calls made in this script run, by service
    turns,              \* number of turns started
    san_pc,             \* sanitizer harness: position
    san_in,             \* sanitizer harness: input text
    san_out,            \* sanitizer harness: sanitize_response(san_in)
    san_twice           \* sanitizer harness: sanitize_response(san_out)

turn_vars == <<prompt, results_docs, results_legis, unique_result_ids,
               store_docs, store_legis, mongo_results, hydrated, context, raw_context, retrieval_error,
               search_details, api_requests, completion_error, stream_chunks, full_response,
               placeholder>>
client_vars == <<mongo_client, pinecone_client, openai_client>>
san_vars == <<san_pc, san_in, san_out, san_twice>>
vars == <<pc, client_vars, messages, turn_vars, calls, turns, san_vars>>

----------------------------------------------------------------------------
(* Bounds of the model *)

MaxTokens == 4      \* tokens of a sanitizer input
MaxFree == 2        \* freely chosen matches at the head of an index result
MaxFill == 4        \* further distinct matches at the tail of an index result
MaxTurns == 2       \* turns of a session
MaxChunks == 2      \* chunks of a completion stream

----------------------------------------------------------------------------
(* Generic helpers *)

Max(S) == CHOOSE x \in S : \A y \in S : y <= x
Min(S) == CHOOSE x \in S : \A y \in S : x <= y

RECURSIVE Flatten(_)
Flatten(ss) == IF ss = <<>> THEN <<>> ELSE Head(ss) \o Flatten(Tail(ss))

SeqsUpTo(S, n) == UNION {[1..k -> S] : k \in 0..n}

----------------------------------------------------------------------------
(* sanitize_response *)

Backtick == "BACKTICK"   \* the backtick character (SANY cannot lex it in a string)
Space == " "
Digits == {"0", "1", "2", "3", "4", "5", "6", "7", "8", "9"}
CommaOrDigit == {","} \cup Digits
Letters == {"a", "b", "c", "d", "e", "f", "g", "h", "i", "j", "k", "l", "m",
            "n", "o", "p", "q", "r", "s", "t", "u", "v", "w", "x", "y", "z",
            "A", "B", "C", "D", "E", "F", "G", "H", "I", "J", "K", "L", "M",
            "N", "O", "P", "Q", "R", "S", "T", "U", "V", "W", "X", "Y", "Z"}
Parens == {"(", ")"}

\* a fence (three backticks) starts at position i
IsFenceAt(text, i) ==
    /\ i + 2 <= Len(text)
    /\ text[i] = Backtick /\ text[i + 1] = Backtick /\ text[i + 2] = Backtick

\* positions where a closing fence can start, for a block opened at i
ClosingFences(text, i) == {j \in (i + 3)..Len(text) : IsFenceAt(text, j)}

RECURSIVE MarkersOnlyFrom(_, _)
MarkersOnlyFrom(text, i) ==
    IF i > Len(text) THEN <<>>
    ELSE IF IsFenceAt(text, i) /\ ClosingFences(text, i) # {}
         THEN LET j == Min(ClosingFences(text, i))
              IN  SubSeq(text, i + 3, j - 1) \o MarkersOnlyFrom(text, j + 3)
         ELSE <<text[i]>> \o MarkersOnlyFrom(text, i + 1)

\* re.sub(FENCE [\s\S]*? FENCE, '', text) from position i: the leftmost
\* block, closed by the nearest fence (lazy), is dropped with its content
RECURSIVE RemoveCodeBlocksFrom(_, _)
RemoveCodeBlocksFrom(text, i) ==
    IF i > Len(text) THEN <<>>
    ELSE IF IsFenceAt(text, i) /\ ClosingFences(text, i) # {}
         THEN RemoveCodeBlocksFrom(text, Min(ClosingFences(text, i)) + 3)
         ELSE <<text[i]>> \o RemoveCodeBlocksFrom(text, i + 1)

\* variant: the fence markers go, the text between them stays
KeepBlockContent(text) == MarkersOnlyFrom(text, 1)

RemoveCodeBlocks(text) == RemoveCodeBlocksFrom(text, 1)

IsNotBacktick(c) == c # Backtick

\* variant: replace with count 1, only the first backtick goes
RECURSIVE DropFirstBacktick(_)
DropFirstBacktick(text) ==
    IF text = <<>> THEN <<>>
    ELSE IF Head(text) = Backtick THEN Tail(text)
         ELSE <<Head(text)>> \o DropFirstBacktick(Tail(text))

\* text.replace(BACKTICK, '')
RemoveBackticks(text) == SelectSeq(text, IsNotBacktick)

\* variant: ([,\d]*) in place of ([,\d]+), the run may be empty
RunMatchesOrEmpty(text, i, Follow) ==
    {k \in (i - 1)..(Len(text) - 1) :
        /\ \A p \in i..k : text[p] \in CommaOrDigit
        /\ text[k + 1] \in Follow}

\* ends k of the matches of ([,\d]+)(Follow) that start at i: text[i..k] is
\* a non-empty run of commas and digits and text[k+1] is in Follow
RunMatches(text, i, Follow) ==
    {k \in i..(Len(text) - 1) :
        /\ \A p \in i..k : text[p] \in CommaOrDigit
        /\ text[k + 1] \in Follow}

\* re.sub(r'([,\d]+)(Follow)', r'\1 \2', text) from position i: leftmost
\* match, longest run (greedy), then on from behind the match
RECURSIVE SpaceAfterRunFrom(_, _, _)
SpaceAfterRunFrom(text, i, Follow) ==
    IF i > Len(text) THEN <<>>
    ELSE IF RunMatches(text, i, Follow) # {}
         THEN LET k == Max(RunMatches(text, i, Follow))
              IN  SubSeq(text, i, k) \o <<Space, text[k + 1]>>
                      \o SpaceAfterRunFrom(text, k + 2, Follow)
         ELSE <<text[i]>> \o SpaceAfterRunFrom(text, i + 1, Follow)

sanitize_response(text) ==
    LET t1 == RemoveCodeBlocks(text)
        t2 == RemoveBackticks(t1)
        t3 == SpaceAfterRunFrom(t2, 1, Letters)
        t4 == SpaceAfterRunFrom(t3, 1, Parens)
    IN  t4

----------------------------------------------------------------------------
(* retrieve_context: merge of the two index results *)

TOP_K == 8

\* for match in results['matches']: match['source_type'] = st; append
Tagged(matches, st) ==
    [k \in 1..Len(matches) |->
        [id |-> matches[k].id, score |-> matches[k].score, source_type |-> st]]

\* combined_matches before the sort: the document matches, then the
\* legislation matches
combined(docs, legis) ==
    Tagged(docs, "document") \o Tagged(legis, "legislation")

\* variant: ascending insertion (reverse=True forgotten)
InsertAscending(sorted, m) ==
    LET n == Cardinality({k \in 1..Len(sorted) : sorted[k].score <= m.score})
    IN  SubSeq(sorted, 1, n) \o <<m>> \o SubSeq(sorted, n + 1, Len(sorted))

\* m goes behind every element whose score is at least its own: elements
\* of equal score keep the order they had (list.sort is stable, also with
\* reverse=True)
InsertByScore(sorted, m) ==
    LET n == Cardinality({k \in 1..Len(sorted) : sorted[k].score >= m.score})
    IN  SubSeq(sorted, 1, n) \o <<m>> \o SubSeq(sorted, n + 1, Len(sorted))

\* combined_matches.sort(key=lambda x: x['score'], reverse=True)
RECURSIVE SortByScoreDesc(_)
SortByScoreDesc(matches) ==
    IF matches = <<>> THEN <<>>
    ELSE InsertByScore(SortByScoreDesc(SubSeq(matches, 1, Len(matches) - 1)),
                       matches[Len(matches)])

IdsOf(items) == {items[k].id : k \in 1..Len(items)}

\* one pass of the loop body: a match whose id was not seen is kept
KeepIfUnseen(kept, m) == IF m.id \notin IdsOf(kept) THEN Append(kept, m) ELSE kept

\* variant: the cap is never reached
NeverFull(kept) == FALSE

\* if len(unique_result_ids) >= TOP_K: break
IsFull(kept) == Len(kept) >= TOP_K

\* the loop over the sorted matches from position i; kept holds, for every
\* entry of unique_result_ids, the match it was made from
RECURSIVE CollectUnique(_, _, _)
CollectUnique(sorted, i, kept) ==
    IF i > Len(sorted) THEN kept
    ELSE LET kept2 == KeepIfUnseen(kept, sorted[i])
         IN  IF IsFull(kept2) THEN kept2
             ELSE CollectUnique(sorted, i + 1, kept2)

\* the matches that survive the merge, in order
KeptMatches(docs, legis) ==
    CollectUnique(SortByScoreDesc(combined(docs, legis)), 1, <<>>)

\* {'id': match['id'], 'source_type': match['source_type']}
UniqueResultIds(kept) ==
    [k \in 1..Len(kept) |-> [id |-> kept[k].id, source_type |-> kept[k].source_type]]

----------------------------------------------------------------------------
(* retrieve_context: hydration and formatting *)

NoField == <<"MISSING">>     \* a field the stored record does not have

\* doc.get(field, default)
GetOr(value, default) == IF value = NoField THEN default ELSE value

\* [item['id'] for item in unique_result_ids if item['source_type'] == st]
IdsToFetch(items, st) ==
    {items[k].id : k \in {n \in 1..Len(items) : items[n].source_type = st}}

\* list(collection.find({"_id": {"$in": ids}})): the records of the
\* collection whose _id is asked for, in the order the collection returns
Find(records, ids) ==
    LET Asked(r) == r._id \in ids
    IN  SelectSeq(records, Asked)

\* mongo_docs_map.get(id) for mongo_docs_map = {doc['_id']: doc for doc in
\* mongo_results}: a later record with the same _id replaces an earlier
\* one; <<>> stands for None
MapGet(results, id) ==
    LET hits == {k \in 1..Len(results) : results[k]._id = id}
    IN  IF hits = {} THEN <<>> ELSE <<results[Max(hits)]>>

\* doc = mongo_docs_map.get(item['id'])
DocFor(item, results) == MapGet(results, item.id)

\* the block and the display entry built for one hydrated item
Entry(item, doc) ==
    LET title == GetOr(doc.title, <<"Untitled">>)
        text_snippet == GetOr(doc.text, <<"No text available">>)
        url_or_source ==
            IF item.source_type = "document"
            THEN GetOr(doc.url, <<"No URL available">>)
            ELSE IF item.source_type = "legislation"
                 THEN GetOr(doc.title, <<"No Title">>)
                 ELSE <<"N/A">>
        source_display_name ==
            IF item.source_type = "document" THEN "Document"
            ELSE IF item.source_type = "legislation" THEN "Legislation"
                 ELSE "Unknown"
    IN  [item |-> item,
         block |-> [source_type |-> source_display_name, title |-> title,
                    link_or_id |-> url_or_source, text |-> text_snippet],
         raw |-> [title |-> title, link_or_id |-> url_or_source,
                  source_type |-> source_display_name]]

\* variant: the entries follow the order of mongo_results
RECURSIVE EntriesInStoreOrder(_, _)
EntriesInStoreOrder(items, results) ==
    IF results = <<>> THEN <<>>
    ELSE LET r == Head(results)
             mine == {k \in 1..Len(items) : items[k].id = r._id}
         IN  (IF mine = {} THEN <<>> ELSE <<Entry(items[Min(mine)], r)>>)
                 \o EntriesInStoreOrder(items, Tail(results))

\* for item in unique_result_ids: ... if doc: ...
RECURSIVE Entries(_, _)
Entries(items, results) ==
    IF items = <<>> THEN <<>>
    ELSE LET doc == DocFor(Head(items), results)
         IN  (IF doc # <<>> THEN <<Entry(Head(items), doc[1])>> ELSE <<>>)
                 \o Entries(Tail(items), results)

Blocks(entries) == [k \in 1..Len(entries) |-> entries[k].block]

\* variant: a display entry is made for the documents only
RawsOfDocuments(entries) ==
    LET IsDocument(en) == en.raw.source_type = "Document"
        kept == SelectSeq(entries, IsDocument)
    IN  [k \in 1..Len(kept) |-> kept[k].raw]

\* raw_context_for_display.append({...}), once per block
Raws(entries) == [k \in 1..Len(entries) |-> entries[k].raw]

----------------------------------------------------------------------------
(* retrieve_context as a whole.  e is what the services answer in the turn: *)
(* e.emb_raises, e.index_docs and e.index_legis ([raises, matches]),       *)
(* e.coll_docs and e.coll_legis ([raises, records]).  The result holds the *)
(* returned pair (formatted_context, raw_context_for_display), the call    *)
(* that raised ("none" if none did), the values the locals had when the    *)
(* function returned, and the number of calls made.                        *)

NoResult ==
    [formatted_context |-> <<>>, raw_context_for_display |-> <<>>,
     error |-> "none", results_docs |-> <<>>, results_legis |-> <<>>,
     unique_result_ids |-> <<>>, store_docs |-> <<>>, store_legis |-> <<>>,
     mongo_results |-> <<>>, hydrated |-> <<>>,
     n_embedding |-> 0, n_index |-> 0, n_store |-> 0]

\* except Exception as e: ...; return "", []
ReturnOnException(locals, call) ==
    [locals EXCEPT !.error = call,
                   !.formatted_context = <<>>,
                   !.raw_context_for_display = <<>>]

retrieve_context(query, e) ==
    IF query = <<>> THEN NoResult
    ELSE
    LET l1 == [NoResult EXCEPT !.n_embedding = 1]
        l2 == [l1 EXCEPT !.n_index = 1]
        l3 == [l2 EXCEPT !.n_index = 2, !.results_docs = e.index_docs.matches]
        kept == KeptMatches(e.index_docs.matches, e.index_legis.matches)
        items == UniqueResultIds(kept)
        l4 == [l3 EXCEPT !.results_legis = e.index_legis.matches,
                         !.unique_result_ids = items]
        doc_ids_to_fetch == IdsToFetch(items, "document")
        legis_ids_to_fetch == IdsToFetch(items, "legislation")
        from_docs == IF doc_ids_to_fetch # {}
                     THEN Find(e.coll_docs.records, doc_ids_to_fetch) ELSE <<>>
        from_legis == IF legis_ids_to_fetch # {}
                      THEN Find(e.coll_legis.records, legis_ids_to_fetch) ELSE <<>>
        l5 == [l4 EXCEPT !.n_store = 1]
        l6 == [l4 EXCEPT !.n_store = IF doc_ids_to_fetch # {} THEN 2 ELSE 1,
                         !.store_docs = IF doc_ids_to_fetch # {}
                                        THEN e.coll_docs.records ELSE <<>>,
                         !.mongo_results = from_docs]
        entries == Entries(items, from_docs \o from_legis)
        l7 == [l4 EXCEPT !.n_store = (IF doc_ids_to_fetch # {} THEN 1 ELSE 0)
                                     + (IF legis_ids_to_fetch # {} THEN 1 ELSE 0),
                         !.store_docs = IF doc_ids_to_fetch # {}
                                        THEN e.coll_docs.records ELSE <<>>,
                         !.store_legis = IF legis_ids_to_fetch # {}
                                         THEN e.coll_legis.records ELSE <<>>,
                         !.mongo_results = from_docs \o from_legis,
                         !.hydrated = [k \in 1..Len(entries) |-> entries[k].item],
                         !.formatted_context = Blocks(entries),
                         !.raw_context_for_display = Raws(entries)]
    IN  IF e.emb_raises THEN ReturnOnException(l1, "embedding")
        ELSE IF e.index_docs.raises THEN ReturnOnException(l2, "query_docs")
        ELSE IF e.index_legis.raises THEN ReturnOnException(l3, "query_legis")
        ELSE IF items = <<>> THEN l4
        ELSE IF doc_ids_to_fetch # {} /\ e.coll_docs.raises
             THEN ReturnOnException(l5, "find_docs")
        ELSE IF legis_ids_to_fetch # {} /\ e.coll_legis.raises
             THEN ReturnOnException(l6, "find_legis")
        ELSE l7

----------------------------------------------------------------------------
(* What the services can answer *)

Id(name, n) == <<name, n>>
X == Id("X", 0)
Y == Id("Y", 0)
Z == Id("Z", 0)
Match(id, score) == [id |-> id, score |-> score]

Returns(matches) == [raises |-> FALSE, matches |-> matches]
QueryRaises == [raises |-> TRUE, matches |-> <<>>]
Holds(records) == [raises |-> FALSE, records |-> records]
FindRaises == [raises |-> TRUE, records |-> <<>>]

\* a stored record; its fields say which collection it is from
Record(coll, id) ==
    [_id |-> id, title |-> <<"title", coll, id>>, url |-> <<"url", coll, id>>,
     text |-> <<"text", coll, id>>]
\* a stored record that has nothing but its _id
BareRecord(id) == [_id |-> id, title |-> NoField, url |-> NoField, text |-> NoField]

Records(coll, ids) == [k \in 1..Len(ids) |-> Record(coll, ids[k])]
Reverse(seq) == [k \in 1..Len(seq) |-> seq[Len(seq) + 1 - k]]

\* n further matches of distinct ids, all of one score
Fill(name, n, score) == [k \in 1..n |-> Match(Id(name, k), score)]
FillIds(name, n) == [k \in 1..n |-> Id(name, k)]

CandidatesDocs == {Match(X, 9), Match(Y, 8), Match(X, 5)}
CandidatesLegis == {Match(X, 7), Match(Z, 6), Match(X, 5)}

WideIndexDocs ==
    {QueryRaises} \cup
    {Returns(free \o fill) : free \in SeqsUpTo(CandidatesDocs, MaxFree),
                             fill \in {<<>>, Fill("D", MaxFill, 8)}}
WideIndexLegis ==
    {QueryRaises} \cup
    {Returns(free \o fill) : free \in SeqsUpTo(CandidatesLegis, MaxFree),
                             fill \in {<<>>, Fill("L", MaxFill, 7)}}

AllIds == <<X, Y, Z>> \o FillIds("D", MaxFill) \o FillIds("L", MaxFill)
Without(ids, gone) == LET Stays(i) == i \notin gone IN SelectSeq(ids, Stays)

\* the two collections: [docs, legis]
WideCollections ==
    { [docs |-> Holds(Records("docs", AllIds)),
       legis |-> Holds(Records("legis", AllIds))],
      [docs |-> Holds(Reverse(Records("docs", AllIds))),
       legis |-> Holds(Reverse(Records("legis", AllIds)))],
      [docs |-> Holds(Reverse(Records("docs", Without(AllIds, {Y, Id("D", 1)})))),
       legis |-> Holds(Records("legis", Without(AllIds, {X, Id("L", 2)})))],
      [docs |-> Holds(<<BareRecord(Y), BareRecord(X)>>),
       legis |-> Holds(<<BareRecord(Z), BareRecord(X)>>)],
      [docs |-> Holds(<<>>), legis |-> Holds(<<>>)],
      [docs |-> FindRaises, legis |-> Holds(Records("legis", AllIds))],
      [docs |-> Holds(Records("docs", AllIds)), legis |-> FindRaises] }

WideAnswers ==
    [emb_raises : BOOLEAN, index_docs : WideIndexDocs,
     index_legis : WideIndexLegis, coll : WideCollections]

NarrowAnswers ==
    [emb_raises : BOOLEAN,
     index_docs : {QueryRaises, Returns(<<>>),
                   Returns(<<Match(X, 9), Match(Y, 8)>>)},
     index_legis : {QueryRaises, Returns(<<>>),
                    Returns(<<Match(X, 7), Match(Z, 6)>>)},
     coll : { [docs |-> Holds(<<Record("docs", Y), Record("docs", X)>>),
               legis |-> Holds(<<Record("legis", Z)>>)],
              [docs |-> Holds(<<>>), legis |-> Holds(<<>>)],
              [docs |-> FindRaises, legis |-> Holds(<<Record("legis", Z)>>)],
              [docs |-> Holds(<<Record("docs", X)>>), legis |-> FindRaises] }]

Env(a) == [emb_raises |-> a.emb_raises, index_docs |-> a.index_docs,
           index_legis |-> a.index_legis, coll_docs |-> a.coll.docs,
           coll_legis |-> a.coll.legis]

Prompts == {<<"q">>}
NoContent == <<"NONE">>       \* a chunk whose delta.content is None
Cursor == <<"CURSOR">>        \* the block cursor drawn behind the stream
Fragments == {<<"1">>, <<"a">>}

welcome_message == <<"WELCOME">>
error_message ==
    <<"I apologize, but I encountered an error. Please try rephrasing your question.">>
Message(role, content) == [role |-> role, content |-> content]

----------------------------------------------------------------------------
(* main: one script run per interaction *)

NoCalls == [mongo |-> 0, pinecone |-> 0, openai |-> 0, embedding |-> 0,
            index |-> 0, store |-> 0, completion |-> 0]

\* the locals of a script run before the turn is processed
FreshTurn ==
    /\ results_docs' = <<>> /\ results_legis' = <<>>
    /\ unique_result_ids' = <<>>
    /\ store_docs' = <<>> /\ store_legis' = <<>>
    /\ mongo_results' = <<>> /\ hydrated' = <<>>
    /\ context' = <<>> /\ raw_context' = <<>>
    /\ retrieval_error' = "none"
    /\ search_details' = "none"
    /\ api_requests' = <<>>
    /\ completion_error' = "none"
    /\ stream_chunks' = 0
    /\ full_response' = <<>>
    /\ placeholder' = <<>>

\* the session before its first script run
InitSession ==
    /\ pc = "get_mongo"
    /\ mongo_client = FALSE /\ pinecone_client = FALSE /\ openai_client = FALSE
    /\ messages = <<>>
    /\ prompt = <<>>
    /\ results_docs = <<>> /\ results_legis = <<>>
    /\ unique_result_ids = <<>>
    /\ store_docs = <<>> /\ store_legis = <<>>
    /\ mongo_results = <<>> /\ hydrated = <<>>
    /\ context = <<>> /\ raw_context = <<>>
    /\ retrieval_error = "none"
    /\ search_details = "none"
    /\ api_requests = <<>>
    /\ completion_error = "none"
    /\ stream_chunks = 0
    /\ full_response = <<>>
    /\ placeholder = <<>>
    /\ calls = NoCalls
    /\ turns = 0

Init ==
    /\ InitSession
    /\ san_pc = "off" /\ san_in = <<>> /\ san_out = <<>> /\ san_twice = <<>>

\* variant: a failed construction is tried again
TryAgain(at) == at

\* st.stop() in the except clause of a get_*_client: the run ends
StopScript(at) == "stopped"

\* get_mongo_client(): MongoClient(...) and the ping
GetMongoClient ==
    /\ pc = "get_mongo"
    /\ calls' = [calls EXCEPT !.mongo = @ + 1]
    /\ \E connected \in BOOLEAN :
          IF connected
          THEN mongo_client' = TRUE /\ pc' = "get_pinecone"
          ELSE mongo_client' = mongo_client /\ pc' = StopScript("get_mongo")
    /\ UNCHANGED <<pinecone_client, openai_client, messages, turn_vars, turns,
                   san_vars>>

\* get_pinecone_client()
GetPineconeClient ==
    /\ pc = "get_pinecone"
    /\ calls' = [calls EXCEPT !.pinecone = @ + 1]
    /\ \E constructed \in BOOLEAN :
          IF constructed
          THEN pinecone_client' = TRUE /\ pc' = "get_openai"
          ELSE pinecone_client' = pinecone_client
               /\ pc' = StopScript("get_pinecone")
    /\ UNCHANGED <<mongo_client, openai_client, messages, turn_vars, turns,
                   san_vars>>

\* get_openai_client(), then main up to the chat input of the first run:
\* the check of the three clients and the welcome entry
GetOpenAIClient ==
    /\ pc = "get_openai"
    /\ calls' = [calls EXCEPT !.openai = @ + 1]
    /\ \E constructed \in BOOLEAN :
          IF ~constructed
          THEN /\ openai_client' = openai_client
               /\ pc' = StopScript("get_openai")
               /\ messages' = messages
          ELSE /\ openai_client' = TRUE
               /\ IF ~(mongo_client /\ pinecone_client)
                  THEN pc' = "stopped" /\ messages' = messages
                  ELSE /\ pc' = "idle"
                       /\ messages' = IF messages = <<>>
                                      THEN <<Message("assistant", welcome_message)>>
                                      ELSE messages
    /\ UNCHANGED <<mongo_client, pinecone_client, turn_vars, turns, san_vars>>

\* a question is entered: the script runs again, the three clients come
\* from the cache, the transcript exists, and the user entry is appended
SubmitPrompt ==
    /\ pc = "idle"
    /\ turns < MaxTurns
    /\ mongo_client /\ pinecone_client /\ openai_client
    /\ \E q \in Prompts :
          /\ prompt' = q
          /\ messages' = Append(messages, Message("user", q))
    /\ FreshTurn
    /\ calls' = NoCalls
    /\ turns' = turns + 1
    /\ pc' = "retrieve"
    /\ UNCHANGED <<client_vars, san_vars>>

\* variant: an exception in retrieve_context ends the turn
AbortOnError(result) == IF result.error # "none" THEN "idle" ELSE "complete"

\* retrieve_context returns on every path, and main goes on to the
\* completion
AfterRetrieval(result) == "complete"

\* variant: the warning is shown only after an exception
DetailsOnlyOnError(result) ==
    IF result.raw_context_for_display # <<>> THEN "sources"
    ELSE IF result.error # "none" THEN "no_documents" ELSE "none"

\* if raw_context: the sources are listed; else: the warning
SearchDetails(result) ==
    IF result.raw_context_for_display # <<>> THEN "sources" ELSE "no_documents"

\* context, raw_context = retrieve_context(...) and the Search Details
RetrieveContextFrom(answers) ==
    /\ pc = "retrieve"
    /\ \E a \in answers :
          \E result \in {retrieve_context(prompt, Env(a))} :
              /\ results_docs' = result.results_docs
              /\ results_legis' = result.results_legis
              /\ unique_result_ids' = result.unique_result_ids
              /\ store_docs' = result.store_docs
              /\ store_legis' = result.store_legis
              /\ mongo_results' = result.mongo_results
              /\ hydrated' = result.hydrated
              /\ retrieval_error' = result.error
              /\ context' = result.formatted_context
              /\ raw_context' = result.raw_context_for_display
              /\ search_details' = SearchDetails(result)
              /\ calls' = [calls EXCEPT !.embedding = @ + result.n_embedding,
                                        !.index = @ + result.n_index,
                                        !.store = @ + result.n_store]
              /\ pc' = AfterRetrieval(result)
    /\ UNCHANGED <<client_vars, messages, prompt, api_requests,
                   completion_error, stream_chunks, full_response, placeholder,
                   turns, san_vars>>

RetrieveContext == RetrieveContextFrom(NarrowAnswers)

\* variant: no except clause, the turn ends without an assistant entry
NoEntryOnError(transcript) == transcript

\* except Exception: the apology is shown and appended
OnCompletionError(transcript) ==
    Append(transcript, Message("assistant", error_message))

\* messages_for_api and openai_client.chat.completions.create(...)
CreateCompletion ==
    /\ pc = "complete"
    /\ api_requests' = Append(api_requests,
                              [context |-> context, question |-> prompt])
    /\ calls' = [calls EXCEPT !.completion = @ + 1]
    /\ \E created \in BOOLEAN :
          IF created
          THEN /\ pc' = "stream"
               /\ UNCHANGED <<messages, completion_error>>
          ELSE /\ completion_error' = "create"
               /\ messages' = OnCompletionError(messages)
               /\ pc' = "idle"
    /\ UNCHANGED <<client_vars, prompt, results_docs, results_legis,
                   unique_result_ids, store_docs, store_legis, mongo_results,
                   hydrated, context, raw_context, retrieval_error,
                   search_details, stream_chunks, full_response, placeholder,
                   turns, san_vars>>

\* for chunk in stream: one chunk arrives
StreamChunk ==
    /\ pc = "stream"
    /\ stream_chunks < MaxChunks
    /\ stream_chunks' = stream_chunks + 1
    /\ \E content \in Fragments \cup {NoContent} :
          IF content # NoContent
          THEN /\ full_response' = full_response \o content
               /\ placeholder' = sanitize_response(full_response \o content) \o Cursor
          ELSE UNCHANGED <<full_response, placeholder>>
    /\ UNCHANGED <<pc, client_vars, messages, prompt, results_docs,
                   results_legis, unique_result_ids, store_docs, store_legis,
                   mongo_results, hydrated, context, raw_context,
                   retrieval_error, search_details, api_requests,
                   completion_error, calls, turns, san_vars>>

\* the stream raises while it is read
StreamRaises ==
    /\ pc = "stream"
    /\ completion_error' = "stream"
    /\ messages' = OnCompletionError(messages)
    /\ pc' = "idle"
    /\ UNCHANGED <<client_vars, prompt, results_docs, results_legis,
                   unique_result_ids, store_docs, store_legis, mongo_results,
                   hydrated, context, raw_context, retrieval_error,
                   search_details, api_requests, stream_chunks, full_response,
                   placeholder, calls, turns, san_vars>>

\* variant: the response is written over the last entry
OverwriteLast(transcript, response) ==
    [transcript EXCEPT ![Len(transcript)] = Message("assistant", response)]

\* st.session_state.messages.append({"role": "assistant", "content": ...})
AppendResponse(transcript, response) ==
    Append(transcript, Message("assistant", response))

\* the stream ends: the sanitized response is shown and appended
StreamEnds ==
    /\ pc = "stream"
    /\ placeholder' = sanitize_response(full_response)
    /\ messages' = AppendResponse(messages, sanitize_response(full_response))
    /\ pc' = "idle"
    /\ UNCHANGED <<client_vars, prompt, results_docs, results_legis,
                   unique_result_ids, store_docs, store_legis, mongo_results,
                   hydrated, context, raw_context, retrieval_error,
                   search_details, api_requests, completion_error,
                   stream_chunks, full_response, calls, turns, san_vars>>

Next ==
    \/ GetMongoClient
    \/ GetPineconeClient
    \/ GetOpenAIClient
    \/ SubmitPrompt
    \/ RetrieveContext
    \/ CreateCompletion
    \/ StreamChunk
    \/ StreamRaises
    \/ StreamEnds

Spec == Init /\ [][Next]_vars

----------------------------------------------------------------------------
(* retrieve_context on a wide range of answers of the services, from the   *)
(* state of a first turn whose question was just appended                  *)

InitRetrieve ==
    /\ pc = "retrieve"
    /\ mongo_client = TRUE /\ pinecone_client = TRUE /\ openai_client = TRUE
    /\ prompt \in Prompts
    /\ messages = <<Message("assistant", welcome_message), Message("user", prompt)>>
    /\ results_docs = <<>> /\ results_legis = <<>>
    /\ unique_result_ids = <<>>
    /\ store_docs = <<>> /\ store_legis = <<>>
    /\ mongo_results = <<>> /\ hydrated = <<>>
    /\ context = <<>> /\ raw_context = <<>>
    /\ retrieval_error = "none"
    /\ search_details = "none"
    /\ api_requests = <<>>
    /\ completion_error = "none"
    /\ stream_chunks = 0
    /\ full_response = <<>>
    /\ placeholder = <<>>
    /\ calls = NoCalls
    /\ turns = 1
    /\ san_pc = "off" /\ san_in = <<>> /\ san_out = <<>> /\ san_twice = <<>>

RetrieveContextWide == RetrieveContextFrom(WideAnswers)

NextRetrieve == RetrieveContextWide

SpecRetrieve == InitRetrieve /\ [][NextRetrieve]_vars

----------------------------------------------------------------------------
(* sanitize_response applied to a text, and again to its own result *)

Fence == <<Backtick, Backtick, Backtick>>
SanitizerTokens ==
    {Fence, <<Backtick>>, <<"1", "0", "0">>, <<"0">>, <<",">>, <<"a">>,
     <<"(">>, <<")">>, <<Space>>}

SanitizerInputs ==
    {Flatten(tokens) : tokens \in SeqsUpTo(SanitizerTokens, MaxTokens)}
    \cup {<<"1", "0", "0", "0", "d", "o", "l", "l", "a", "r", "s">>,
          <<"1", "0", "0", "(", "a", ")">>,
          Fence \o <<"c", "o", "d", "e">> \o Fence}

InitSanitize ==
    /\ InitSession
    /\ san_pc = "input"
    /\ san_in \in SanitizerInputs
    /\ san_out = <<>>
    /\ san_twice = <<>>

Sanitize ==
    /\ san_pc = "input"
    /\ san_out' = sanitize_response(san_in)
    /\ san_pc' = "once"
    /\ UNCHANGED <<pc, client_vars, messages, turn_vars, calls, turns, san_in,
                   san_twice>>

SanitizeAgain ==
    /\ san_pc = "once"
    /\ san_twice' = sanitize_response(san_out)
    /\ san_pc' = "twice"
    /\ UNCHANGED <<pc, client_vars, messages, turn_vars, calls, turns, san_in,
                   san_out>>

NextSanitize == Sanitize \/ SanitizeAgain

SpecSanitize == InitSanitize /\ [][NextSanitize]_vars

----------------------------------------------------------------------------
(* Claims about sanitize_response, checked under SpecSanitize *)

\* C4: sanitize_response is idempotent: sanitizing an already sanitized
\* text changes nothing, for every input text.
C4_Idempotent == san_pc = "twice" => san_twice = san_out

\* a text with backticks, digits, letters and parentheses was sanitized
\* twice, and the first pass changed it
C4_Witness ==
    /\ san_pc = "twice"
    /\ san_out # san_in
    /\ Backtick \in {san_in[k] : k \in 1..Len(san_in)}
    /\ \E k \in 1..(Len(san_in) - 1) :
          san_in[k] \in CommaOrDigit /\ san_in[k + 1] \in Letters \cup Parens

\* the input has exactly one fenced block and no other backtick: fences at
\* i and j
OneBlockAt(text, i, j) ==
    /\ i + 3 <= j /\ j + 2 <= Len(text)
    /\ {k \in 1..Len(text) : text[k] = Backtick}
           = {i, i + 1, i + 2, j, j + 1, j + 2}

\* the text with one space put behind every comma or digit that stands
\* right before a character of Follow
SpacedBefore(text, Follow) ==
    Flatten([k \in 1..Len(text) |->
                IF /\ text[k] \in CommaOrDigit
                   /\ k < Len(text)
                   /\ text[k + 1] \in Follow
                THEN <<text[k], Space>> ELSE <<text[k]>>])

\* C5 as claimed: of a paired fenced block only the fence markers are
\* removed and the text between them is kept.
C5_ContentKept ==
    san_pc # "input" =>
        \A i, j \in 1..Len(san_in) :
            OneBlockAt(san_in, i, j) =>
                san_out = SpacedBefore(SubSeq(san_in, 1, i - 1)
                                           \o SubSeq(san_in, i + 3, j - 1)
                                           \o SubSeq(san_in, j + 3, Len(san_in)),
                                       Letters \cup Parens)

\* C5 amended: a paired fenced block is removed whole, the fence markers
\* together with the text between them; the text around it is kept (and
\* spaced).
C5_BlockRemoved ==
    san_pc # "input" =>
        \A i, j \in 1..Len(san_in) :
            OneBlockAt(san_in, i, j) =>
                san_out = SpacedBefore(SubSeq(san_in, 1, i - 1)
                                           \o SubSeq(san_in, j + 3, Len(san_in)),
                                       Letters \cup Parens)

\* the fenced block of the example was sanitized, and a block with text
\* around it
C5_Witness ==
    /\ san_pc = "once"
    /\ \/ san_in = Fence \o <<"c", "o", "d", "e">> \o Fence /\ san_out = <<>>
       \/ san_in = <<"a">> \o Fence \o <<"a">> \o Fence /\ san_out = <<"a">>

\* C6: a text without backticks comes back with exactly one space behind
\* every run of digits and commas that stands right before a letter or a
\* parenthesis and with no other change; in the result no digit or comma
\* stands right before a letter or a parenthesis.
C6_Spacing ==
    (san_pc # "input" /\ Backtick \notin {san_in[k] : k \in 1..Len(san_in)}) =>
        /\ san_out = SpacedBefore(san_in, Letters \cup Parens)
        /\ \A k \in 1..(Len(san_out) - 1) :
              san_out[k] \in CommaOrDigit =>
                  san_out[k + 1] \notin Letters \cup Parens

\* the two examples were sanitized
C6_Witness ==
    /\ san_pc = "once"
    /\ \/ /\ san_in = <<"1", "0", "0", "0", "d", "o", "l", "l", "a", "r", "s">>
          /\ san_out = <<"1", "0", "0", "0", " ", "d", "o", "l", "l", "a", "r", "s">>
       \/ /\ san_in = <<"1", "0", "0", "(", "a", ")">>
          /\ san_out = <<"1", "0", "0", " ", "(", "a", ")">>

----------------------------------------------------------------------------
(* Claims about the merge and the hydration, checked under SpecRetrieve *)

\* both index lookups of the turn have answered and the merge was made
Merged ==
    /\ pc = "complete"
    /\ retrieval_error \notin {"embedding", "query_docs", "query_legis"}

ListOf(source_type) ==
    IF source_type = "document" THEN results_docs ELSE results_legis

ScoresIn(matches, id) ==
    {matches[k].score : k \in {n \in 1..Len(matches) : matches[n].id = id}}

ReturnedIds == IdsOf(results_docs) \cup IdsOf(results_legis)

Places(id) == {k \in 1..Len(unique_result_ids) : unique_result_ids[k].id = id}

\* the score of the occurrence an entry of the merged list was made from:
\* the best score its id has in the list of its source type
KeptScore(item) == Max(ScoresIn(ListOf(item.source_type), item.id))

\* C1: the merged list holds every id at most once, is in non-increasing
\* order of the scores of the occurrences kept, and has at most TOP_K
\* entries over both sources together.
C1_Merge ==
    Merged =>
        /\ \A i, j \in 1..Len(unique_result_ids) :
              i # j => unique_result_ids[i].id # unique_result_ids[j].id
        /\ \A k \in 1..Len(unique_result_ids) :
              ScoresIn(ListOf(unique_result_ids[k].source_type),
                       unique_result_ids[k].id) # {}
        /\ \A k \in 1..(Len(unique_result_ids) - 1) :
              KeptScore(unique_result_ids[k]) >= KeptScore(unique_result_ids[k + 1])
        /\ Len(unique_result_ids) <= 8

\* the two lists repeat an id within a list and across the lists, hold
\* more than TOP_K ids together, and the merged list is full
C1_Witness ==
    /\ Merged
    /\ Len(unique_result_ids) = 8
    /\ Cardinality(ReturnedIds) > 8
    /\ Cardinality(IdsOf(results_docs)) < Len(results_docs)
    /\ IdsOf(results_docs) \cap IdsOf(results_legis) # {}

InBoth == IdsOf(results_docs) \cap IdsOf(results_legis)

BestScore(id) == Max(ScoresIn(results_docs, id) \cup ScoresIn(results_legis, id))

\* the source type of the occurrence of id met first when the matches are
\* gone through by falling score: the best-scored one, the document
\* index's if both lists hold the id at its best score
FirstMetSource(id) ==
    IF BestScore(id) \in ScoresIn(results_docs, id)
    THEN "document" ELSE "legislation"

\* C2 as claimed: an id returned by both indexes is in the merged list
\* exactly once, with the source type of its occurrence met first.
C2_ExactlyOnce ==
    Merged =>
        \A id \in InBoth :
            /\ Cardinality(Places(id)) = 1
            /\ \A k \in Places(id) :
                  unique_result_ids[k].source_type = FirstMetSource(id)

\* the ids other than id of which an occurrence is met before the first
\* occurrence of id: a better score, or the same score and an earlier
\* place in the document list followed by the legislation list
MetBefore(id) ==
    LET all == results_docs \o results_legis
        first == Min({k \in 1..Len(all) :
                        all[k].id = id /\ all[k].score = BestScore(id)})
    IN  {all[k].id : k \in {n \in 1..Len(all) :
            /\ all[n].id # id
            /\ \/ all[n].score > BestScore(id)
               \/ all[n].score = BestScore(id) /\ n < first}}

\* C2 amended: an id returned by both indexes is in the merged list at
\* most once, and exactly once unless TOP_K other ids are met before it;
\* where it is, it has the source type of its occurrence met first.
C2_OnceUnlessCut ==
    Merged =>
        \A id \in InBoth :
            /\ Cardinality(Places(id)) <= 1
            /\ Cardinality(Places(id)) = 1 <=> Cardinality(MetBefore(id)) < 8
            /\ \A k \in Places(id) :
                  unique_result_ids[k].source_type = FirstMetSource(id)

\* the example: X(9), Y(8) from the documents and X(7), Z(6) from the
\* legislation merge to X, Y, Z, and X is a document
C2_Witness ==
    /\ Merged
    /\ results_docs = <<Match(X, 9), Match(Y, 8)>>
    /\ results_legis = <<Match(X, 7), Match(Z, 6)>>
    /\ unique_result_ids = <<[id |-> X, source_type |-> "document"],
                             [id |-> Y, source_type |-> "document"],
                             [id |-> Z, source_type |-> "legislation"]>>

\* the collection an item is looked up in
CollectionOf(item) ==
    IF item.source_type = "document" THEN store_docs ELSE store_legis

HasRecord(item) ==
    \E k \in 1..Len(CollectionOf(item)) : CollectionOf(item)[k]._id = item.id

RecordOf(item) ==
    LET coll == CollectionOf(item)
    IN  coll[CHOOSE k \in 1..Len(coll) : coll[k]._id = item.id]

\* C3: the records hydrated, and the blocks and display entries made of
\* them, are those candidates of the merged list that have a record in
\* the collection of their source type, in the order of the merged list,
\* whatever the order the collections return their records in; a
\* candidate without a record is left out and nothing is raised.
C3_Hydration ==
    (pc = "complete" /\ retrieval_error = "none") =>
        /\ hydrated = SelectSeq(unique_result_ids, HasRecord)
        /\ Len(context) = Len(hydrated)
        /\ Len(raw_context) = Len(hydrated)
        /\ \A k \in 1..Len(hydrated) :
              /\ context[k].title = GetOr(RecordOf(hydrated[k]).title, <<"Untitled">>)
              /\ context[k].text
                    = GetOr(RecordOf(hydrated[k]).text, <<"No text available">>)
              /\ raw_context[k].title = context[k].title
              /\ raw_context[k].link_or_id = context[k].link_or_id

\* a candidate has no record, two others have, and the collection
\* returned those two in the opposite order
C3_Witness ==
    /\ pc = "complete" /\ retrieval_error = "none"
    /\ Len(hydrated) < Len(unique_result_ids)
    /\ \E i, j \in 1..Len(hydrated) : \E a, b \in 1..Len(mongo_results) :
          /\ i < j /\ b < a
          /\ mongo_results[a]._id = hydrated[i].id
          /\ mongo_results[b]._id = hydrated[j].id

----------------------------------------------------------------------------
(* Claims about a turn and about the start, checked under Spec *)

InTurn == pc \in {"retrieve", "complete", "stream"}
TurnDone == pc = "idle" /\ turns >= 1

\* C7: when the completion call raises, at its creation or while the
\* stream is read, the turn ends with exactly one assistant entry, the
\* fixed apology; what was accumulated of the response is never appended;
\* the session takes further questions.
C7_Apology ==
    /\ InTurn =>
          /\ Len(messages) = 2 * turns
          /\ messages[Len(messages)] = Message("user", prompt)
    /\ (TurnDone /\ completion_error # "none") =>
          /\ Len(messages) = 2 * turns + 1
          /\ messages[Len(messages) - 1] = Message("user", prompt)
          /\ messages[Len(messages)] = Message("assistant", error_message)
          /\ turns < MaxTurns => ENABLED SubmitPrompt

\* a first turn ended with the apology, a second one was taken, and its
\* stream raised after a fragment had been accumulated
C7_Witness ==
    /\ TurnDone /\ turns = 2
    /\ messages[3] = Message("assistant", error_message)
    /\ completion_error = "stream"
    /\ full_response # <<>>

TheRequest == <<[context |-> <<>>, question |-> prompt]>>

\* C8: when the embedding call, an index lookup or a store lookup raises,
\* retrieve_context returns the empty context and the empty source list,
\* the turn goes on, and the completion service is called for the turn
\* with an empty context.
C8_RetrievalFailure ==
    (turns >= 1 /\ retrieval_error # "none") =>
        /\ context = <<>> /\ raw_context = <<>>
        /\ pc \in {"complete", "stream", "idle"}
        /\ pc = "complete" => api_requests = <<>> /\ ENABLED CreateCompletion
        /\ pc \in {"stream", "idle"} => api_requests = TheRequest

\* the legislation store raised after the document store had answered,
\* and the turn ended with a response
C8_Witness ==
    /\ TurnDone
    /\ retrieval_error = "find_legis"
    /\ mongo_results # <<>>
    /\ completion_error = "none"
    /\ full_response # <<>>

\* nothing raised, and no index returned a match or no merged candidate
\* has a record
NothingFound ==
    /\ turns >= 1 /\ pc \in {"complete", "stream", "idle"}
    /\ retrieval_error = "none"
    /\ \/ results_docs = <<>> /\ results_legis = <<>>
       \/ \A k \in 1..Len(unique_result_ids) : ~HasRecord(unique_result_ids[k])

\* C9: when no index returns a match, or no merged candidate has a record,
\* the context and the source list are empty, the warning that no relevant
\* documents were found is shown, and the completion service is called
\* exactly once in the turn, with the question and an empty context.
C9_NoContext ==
    NothingFound =>
        /\ context = <<>> /\ raw_context = <<>>
        /\ search_details = "no_documents"
        /\ pc = "complete" => api_requests = <<>> /\ ENABLED CreateCompletion
        /\ pc \in {"stream", "idle"} => api_requests = TheRequest

\* a turn in which both indexes returned nothing ended with a response
C9_Witness ==
    /\ TurnDone
    /\ retrieval_error = "none"
    /\ results_docs = <<>> /\ results_legis = <<>>
    /\ calls.index = 2
    /\ completion_error = "none"
    /\ full_response # <<>>

\* C10: when the construction of a client fails at the start, the run
\* stops before any turn: no embedding, lookup or completion call is
\* made, the transcript is not appended to, nothing runs after the stop,
\* and no construction is attempted twice.
C10_Startup ==
    /\ calls.mongo <= 1 /\ calls.pinecone <= 1 /\ calls.openai <= 1
    /\ pc = "stopped" =>
          /\ calls.embedding = 0 /\ calls.index = 0 /\ calls.store = 0
          /\ calls.completion = 0
          /\ messages = <<>>
          /\ turns = 0
          /\ ~ENABLED Next

\* the vector-index client could not be constructed after the database
\* had answered
C10_Witness ==
    /\ pc = "stopped"
    /\ mongo_client /\ ~pinecone_client
    /\ calls.pinecone = 1

----------------------------------------------------------------------------
(* Claims about the transcript and the returned pair, checked under Spec *)

\* the transcript is the welcome entry followed by user and assistant
\* entries in turn
Alternating ==
    /\ messages # <<>> => messages[1] = Message("assistant", welcome_message)
    /\ \A k \in 2..Len(messages) :
          messages[k].role = IF k % 2 = 0 THEN "user" ELSE "assistant"

\* a step leaves the transcript as it is or puts one entry behind it
GrowsByOne ==
    \/ messages' = messages
    \/ /\ Len(messages') = Len(messages) + 1
       /\ SubSeq(messages', 1, Len(messages)) = messages

\* C11: the transcript is append-only and the turns follow one another:
\* no entry is ever changed, removed or moved; a turn appends the user's
\* question and then exactly one assistant entry; the question of a turn
\* is appended only behind the assistant entry of the turn before; after
\* every completed turn the transcript is the welcome entry followed by
\* user and assistant entries in strict alternation.
C11_Transcript ==
    /\ [][GrowsByOne]_vars
    /\ [](Alternating
          /\ (InTurn => /\ Len(messages) = 2 * turns
                        /\ messages[Len(messages)] = Message("user", prompt))
          /\ (pc = "idle" => Len(messages) = 2 * turns + 1))

\* two turns are done, the first ended with the apology and the second
\* with a response
C11_Witness ==
    /\ TurnDone /\ turns = 2
    /\ Len(messages) = 5
    /\ messages[3] = Message("assistant", error_message)
    /\ completion_error = "none"
    /\ messages[5] = Message("assistant", sanitize_response(full_response))
    /\ full_response # <<>>

\* retrieve_context has returned in this turn
Retrieved == turns >= 1 /\ pc \in {"complete", "stream", "idle"}

\* C12: on every return of retrieve_context the context and the source
\* list go together: one block per source entry, in the same order, the
\* one empty exactly when the other is; so the warning that no relevant
\* documents were found is shown in exactly the turns in which the
\* completion service is given an empty context.
C12_LockStep ==
    Retrieved =>
        /\ Len(context) = Len(raw_context)
        /\ \A k \in 1..Len(context) :
              /\ context[k].title = raw_context[k].title
              /\ context[k].link_or_id = raw_context[k].link_or_id
              /\ context[k].source_type = raw_context[k].source_type
        /\ context = <<>> <=> raw_context = <<>>
        /\ search_details = "no_documents" <=> context = <<>>
        /\ search_details \in {"no_documents", "sources"}
        /\ \A n \in 1..Len(api_requests) :
              /\ api_requests[n].context = context
              /\ search_details = "no_documents" <=> api_requests[n].context = <<>>

\* a turn whose context has a legislation block behind document blocks
\* ended, after a turn in which the retrieval had raised
C12_Witness ==
    /\ TurnDone /\ turns = 2
    /\ Len(context) = 3
    /\ raw_context[1].source_type = "Document"
    /\ raw_context[3].source_type = "Legislation"
    /\ search_details = "sources"
    /\ Len(api_requests) = 1

====
